---- MODULE Spec2Model ----
(***************************************************************************)
(* A model of the Blockchain MCP server: the call-tool request handler     *)
(* (index.ts), the dispatcher and the eight tool handlers                  *)
(* (toolHandlers.ts), the argument schemas (schemas.ts) and the client     *)
(* helpers (client.ts).                                                    *)
(*                                                                         *)
(* JavaScript strings are sequences of string tokens, bigints are          *)
(* sequences of decimal digits (most significant first), and a chain RPC   *)
(* is an await point: the handler issues it in one step and the node       *)
(* answers (or fails) in a later one.                                      *)
(***************************************************************************)
EXTENDS Integers, Sequences, FiniteSets, TLC

VARIABLES
    cliArgs,               \* process.argv.slice(2)
    env,                   \* process.env: RPC_URL and PRIVATE_KEY
    rpcUrl,                \* client.ts: export const rpcUrl
    _publicClient,         \* client.ts: the cached read client (0: undefined)
    publicClientsCreated,  \* number of createPublicClient calls so far
    walletClientsCreated,  \* number of createWalletClient calls so far
    calls                  \* the frame of the tool call in each request slot

vars == <<cliArgs, env, rpcUrl, _publicClient, publicClientsCreated,
          walletClientsCreated, calls>>

-----------------------------------------------------------------------------
(* Bounds                                                                  *)

\* Signing clients that may be constructed in one run (caps the counter).
MaxWalletClients == 2

\* The request slots: two tool calls may be in flight at once.
Slots == {1, 2}

-----------------------------------------------------------------------------
(* JavaScript values                                                       *)

Undefined == [t |-> "undefined", v |-> <<>>]
Str(s) == [t |-> "string", v |-> s]
Num(s) == [t |-> "number", v |-> s]
Arr(items) == [t |-> "array", v |-> items]

\* An argument mapping: the keys present and their values.  The request may
\* also carry no arguments at all (undefined).
NoArguments == [defined |-> FALSE, map |-> [k \in {} |-> Undefined]]
Arguments(m) == [defined |-> TRUE, map |-> m]

\* raw[key] of a JavaScript object: undefined for a key that is absent.
Get(raw, key) == IF key \in DOMAIN raw.map THEN raw.map[key] ELSE Undefined

\* Fcn with key k set to value x (added when absent).
With(f, k, x) == [j \in DOMAIN f \cup {k} |-> IF j = k THEN x ELSE f[j]]

\* Fcn without key k.
Without(f, k) == [j \in DOMAIN f \ {k} |-> f[j]]

-----------------------------------------------------------------------------
(* Decimal digits and bigints                                              *)

DigitChars == <<"0", "1", "2", "3", "4", "5", "6", "7", "8", "9">>

IsDigitChar(c) == \E d \in 1..10 : DigitChars[d] = c

DigitOf(c) == (CHOOSE d \in 1..10 : DigitChars[d] = c) - 1

\* BigInt.prototype.toString(): the decimal digits as characters.
BigIntToString(b) == [i \in 1..Len(b) |-> DigitChars[b[i] + 1]]

\* n copies of x.
Repeat(x, n) == [i \in 1..n |-> x]

\* The sequence without its leading zeros; zero is <<0>>.
RECURSIVE StripLeadingZeros(_)
StripLeadingZeros(b) ==
    IF Len(b) > 1 /\ b[1] = 0 THEN StripLeadingZeros(Tail(b)) ELSE b

-----------------------------------------------------------------------------
(* schemas.ts: the argument schemas                                        *)

UnitOptions == {<<"wei">>, <<"ether">>, <<"gwei">>}

\* z.string()
ZString(name) == [name |-> name, kind |-> "string"]
\* z.enum(["wei", "ether", "gwei"]).optional().default("ether")
ZUnitEnum(name) == [name |-> name, kind |-> "enum"]
\* z.union([z.string(), z.any()])
ZStringOrAny(name) == [name |-> name, kind |-> "any"]
\* z.array(z.any()).optional().default([])
ZArray(name) == [name |-> name, kind |-> "array"]

GetEthBalanceArgsSchema == <<ZString("address"), ZUnitEnum("unit")>>

GetErc20BalanceArgsSchema == <<ZString("tokenAddress"), ZString("accountAddress")>>

SendEthArgsSchema == <<ZString("to"), ZString("amountEth")>>

CallContractArgsSchema ==
    <<ZString("address"), ZStringOrAny("abi"), ZString("functionName"), ZArray("args")>>

Erc20TransferArgsSchema == <<ZString("tokenAddress"), ZString("to"), ZString("amount")>>

Erc20ApproveArgsSchema == <<ZString("tokenAddress"), ZString("spender"), ZString("amount")>>

Erc20AllowanceArgsSchema == <<ZString("tokenAddress"), ZString("owner"), ZString("spender")>>

\* Whether a field schema accepts the value found under its key.
FieldAccepts(field, value) ==
    CASE field.kind = "string" -> value.t = "string"
      [] field.kind = "enum" ->
            value.t = "undefined" \/ (value.t = "string" /\ value.v \in UnitOptions)
      [] field.kind = "any" -> TRUE
      [] field.kind = "array" -> value.t \in {"undefined", "array"}

\* The parsed value of an accepted field: defaults fill in for undefined.
FieldData(field, value) ==
    CASE field.kind = "enum" /\ value.t = "undefined" -> Str(<<"ether">>)
      [] field.kind = "array" /\ value.t = "undefined" -> Arr(<<>>)
      [] OTHER -> value

\* The issue zod reports for a rejected field.
FieldIssue(field, value) ==
    CASE value.t = "undefined" -> field.name \o ": Required"
      [] field.kind = "enum" /\ value.t = "string" -> field.name \o ": Invalid enum value"
      [] OTHER -> field.name \o ": Expected " \o field.kind \o ", received " \o value.t

\* Every issue of the schema's fields, in declaration order.
RECURSIVE Issues(_, _)
Issues(schema, raw) ==
    IF schema = <<>> THEN <<>>
    ELSE LET field == Head(schema)
             value == Get(raw, field.name)
         IN  (IF FieldAccepts(field, value) THEN <<>> ELSE <<FieldIssue(field, value)>>)
             \o Issues(Tail(schema), raw)

\* schema.safeParse(raw): success with the parsed data (unknown keys stripped,
\* defaults applied), or failure with a ZodError listing every issue.
SafeParse(schema, raw) ==
    IF ~raw.defined
    THEN [success |-> FALSE, data |-> [k \in {} |-> Undefined],
          error |-> [name |-> "ZodError", message |-> <<"Required">>]]
    ELSE LET issues == Issues(schema, raw)
             names == {schema[i].name : i \in 1..Len(schema)}
             fieldOf(n) == CHOOSE f \in {schema[i] : i \in 1..Len(schema)} : f.name = n
         IN  IF issues # <<>>
             THEN [success |-> FALSE, data |-> [k \in {} |-> Undefined],
                   error |-> [name |-> "ZodError", message |-> issues]]
             ELSE [success |-> TRUE,
                   data |-> [n \in names |-> FieldData(fieldOf(n), Get(raw, n))],
                   error |-> [name |-> "", message |-> <<>>]]

-----------------------------------------------------------------------------
(* client.ts: RPC endpoint resolution                                      *)

DEFAULT_RPC_URL == "http://127.0.0.1:8545"

\* An environment variable: unset, or set to a string (possibly empty).
Unset == [set |-> FALSE, val |-> ""]
SetTo(s) == [set |-> TRUE, val |-> s]

\* Faulty variant: || in place of ??, so an empty string falls through.
ResolveRpcUrlFalsy(args, environment) ==
    IF Len(args) >= 1 /\ args[1] # "" THEN args[1]
    ELSE IF environment.RPC_URL.set /\ environment.RPC_URL.val # ""
         THEN environment.RPC_URL.val
    ELSE DEFAULT_RPC_URL

\* cliArgs[0] ?? process.env.RPC_URL ?? DEFAULT_RPC_URL
ResolveRpcUrl(args, environment) ==
    IF Len(args) >= 1 THEN args[1]
    ELSE IF environment.RPC_URL.set THEN environment.RPC_URL.val
    ELSE DEFAULT_RPC_URL

-----------------------------------------------------------------------------
(* viem: unit conversion                                                   *)

\* The index of the last character of s that is not "0" (0 when there is none).
RECURSIVE LastNonZero(_)
LastNonZero(s) ==
    IF s = <<>> THEN 0
    ELSE IF s[Len(s)] # "0" THEN Len(s)
    ELSE LastNonZero(SubSeq(s, 1, Len(s) - 1))

\* fraction.replace(/(0+)$/, '')
StripTrailingZeros(s) == SubSeq(s, 1, LastNonZero(s))

\* display.padStart(n, '0')
PadStart(s, n) == IF Len(s) >= n THEN s ELSE Repeat("0", n - Len(s)) \o s

\* formatUnits(value, decimals): the integer part, then "." and the fraction
\* without its trailing zeros when the fraction is not zero.
formatUnits(value, decimals) ==
    LET display == PadStart(BigIntToString(value), decimals)
        integer == SubSeq(display, 1, Len(display) - decimals)
        fraction == StripTrailingZeros(
                        SubSeq(display, Len(display) - decimals + 1, Len(display)))
    IN  (IF integer = <<>> THEN <<"0">> ELSE integer)
        \o (IF fraction = <<>> THEN <<>> ELSE <<".">> \o fraction)

etherUnits_wei == 18

\* formatEther(wei) = formatUnits(wei, 18)
formatEther(wei) == formatUnits(wei, etherUnits_wei)

\* The position of the first "." of s (0 when there is none).
RECURSIVE IndexOfDot(_, _)
IndexOfDot(s, i) ==
    IF i > Len(s) THEN 0 ELSE IF s[i] = "." THEN i ELSE IndexOfDot(s, i + 1)

\* /^([0-9]*)\.?([0-9]*)$/ (amounts here carry no sign)
IsDecimalNumber(s) ==
    LET dot == IndexOfDot(s, 1)
    IN  \A i \in 1..Len(s) : i = dot \/ IsDigitChar(s[i])

\* digits + 1
RECURSIVE AddOne(_)
AddOne(b) ==
    IF b = <<>> THEN <<1>>
    ELSE IF b[Len(b)] < 9 THEN [b EXCEPT ![Len(b)] = @ + 1]
    ELSE Append(AddOne(SubSeq(b, 1, Len(b) - 1)), 0)

\* parseUnits(value, decimals) for a value that IsDecimalNumber: the integer
\* digits followed by exactly `decimals` fraction digits; a longer fraction is
\* rounded half up at the last kept digit.
parseUnits(value, decimals) ==
    LET dot == IndexOfDot(value, 1)
        integer == IF dot = 0 THEN value ELSE SubSeq(value, 1, dot - 1)
        fraction == StripTrailingZeros(
                        IF dot = 0 THEN <<"0">> ELSE SubSeq(value, dot + 1, Len(value)))
        digits(s) == [i \in 1..Len(s) |-> DigitOf(s[i])]
        kept == IF Len(fraction) > decimals
                THEN SubSeq(fraction, 1, decimals)
                ELSE fraction \o Repeat("0", decimals - Len(fraction))
        roundUp == Len(fraction) > decimals /\ DigitOf(fraction[decimals + 1]) >= 5
        whole == digits(integer \o kept)
    IN  StripLeadingZeros(IF roundUp THEN AddOne(whole)
                          ELSE IF whole = <<>> THEN <<0>> ELSE whole)

\* parseEther(ether) = parseUnits(ether, 18)
parseEther(ether) == parseUnits(ether, etherUnits_wei)

-----------------------------------------------------------------------------
(* JSON                                                                    *)

\* The identifiers that occur in ABIs.
AbiNames == {"f", "g", "h"}

Quote(name) == "\"" \o name \o "\""

IsQuoted(tok) == \E n \in AbiNames : Quote(n) = tok

Unquote(tok) == CHOOSE n \in AbiNames : Quote(n) = tok

\* The elements of a JSON array body: name ("," name)* up to the closing "]".
\* ok is FALSE when the text is not of that shape.
RECURSIVE ParseElements(_, _, _)
ParseElements(toks, i, acc) ==
    IF i > Len(toks) \/ ~IsQuoted(toks[i]) THEN [ok |-> FALSE, items |-> <<>>]
    ELSE IF i + 1 = Len(toks) /\ toks[i + 1] = "]"
         THEN [ok |-> TRUE, items |-> Append(acc, Unquote(toks[i]))]
    ELSE IF i + 1 < Len(toks) /\ toks[i + 1] = ","
         THEN ParseElements(toks, i + 2, Append(acc, Unquote(toks[i])))
    ELSE [ok |-> FALSE, items |-> <<>>]

\* JSON.parse(text) for the texts met here: an array of names.  Anything else
\* throws a SyntaxError.
JsonParse(toks) ==
    IF Len(toks) >= 2 /\ toks[1] = "[" /\ toks[2] = "]" /\ Len(toks) = 2
    THEN [ok |-> TRUE, value |-> Arr(<<>>)]
    ELSE IF Len(toks) >= 3 /\ toks[1] = "["
    THEN LET r == ParseElements(toks, 2, <<>>)
         IN  [ok |-> r.ok, value |-> Arr(r.items)]
    ELSE [ok |-> FALSE, value |-> Undefined]

\* A value returned by a contract read: a bigint, a string, or a tuple of them.
BigIntItem(n) == [t |-> "bigint", n |-> n, s |-> ""]
StringItem(s) == [t |-> "string", n |-> <<>>, s |-> s]
Scalar(item) == [isArray |-> FALSE, items |-> <<item>>]
Tuple(items) == [isArray |-> TRUE, items |-> items]

\* The replacer (_, v) => typeof v === "bigint" ? v.toString() : v
Replacer(item) == IF item.t = "bigint" THEN [t |-> "string", n |-> <<>>, s |-> "", chars |-> BigIntToString(item.n)]
                  ELSE [t |-> item.t, n |-> item.n, s |-> item.s, chars |-> <<item.s>>]

\* A JSON string literal.
JsonString(chars) == <<"\"">> \o chars \o <<"\"">>

RECURSIVE StringifyItems(_)
StringifyItems(items) ==
    IF items = <<>> THEN <<>>
    ELSE <<"\n  ">> \o JsonString(Replacer(Head(items)).chars)
         \o (IF Len(items) > 1 THEN <<",">> ELSE <<>>)
         \o StringifyItems(Tail(items))

\* JSON.stringify(result, replacer, 2)
JsonStringify(result) ==
    IF ~result.isArray THEN JsonString(Replacer(result.items[1]).chars)
    ELSE IF result.items = <<>> THEN <<"[", "]">>
    ELSE <<"[">> \o StringifyItems(result.items) \o <<"\n", "]">>

-----------------------------------------------------------------------------
(* Tool call frames                                                        *)

NoEnvelope == [hasContent |-> FALSE, content |-> <<>>, isError |-> "undefined"]

NoError == [class |-> "none", message |-> <<>>]

NoResult == Tuple(<<>>)

EmptyData == [k \in {} |-> Undefined]

\* The frame of a request slot with no call in it.
IdleFrame ==
    [pc |-> "idle", tool |-> "", raw |-> NoArguments, data |-> EmptyData,
     invoked |-> <<>>, client |-> 0, wallet |-> 0, pending |-> {}, rpcs |-> <<>>,
     settled |-> <<>>,
     balance |-> <<>>, decimals |-> -1, amountRaw |-> <<>>, result |-> NoResult,
     hash |-> "", thrown |-> NoError, response |-> NoEnvelope,
     envelope |-> NoEnvelope]

\* interface ToolResponse: one text item, isError left unset.
ToolResponse(text) ==
    [hasContent |-> TRUE, content |-> <<[type |-> "text", text |-> text]>>,
     isError |-> "undefined"]

\* return <response> inside a handler.
Return(f, response) == [f EXCEPT !.pc = "returned", !.response = response]

\* throw <error> inside a handler (or a rejected await).
Throw(f, class, message) ==
    [f EXCEPT !.pc = "threw", !.thrown = [class |-> class, message |-> message]]

\* await <rpc>: the handler issues the RPC and suspends.
Await(f, labels) ==
    [f EXCEPT !.pc = "await", !.pending = {labels[i] : i \in 1..Len(labels)},
              !.rpcs = @ \o labels]

-----------------------------------------------------------------------------
(* client.ts: cached client helpers                                        *)

\* The module-level state the helpers read and write.
Globals ==
    [pub |-> _publicClient, pubCreated |-> publicClientsCreated,
     walletCreated |-> walletClientsCreated]

\* Faulty variant: no caching, a read client is constructed on every call.
getPublicClientUncached(g) ==
    [g EXCEPT !.pub = g.pubCreated + 1, !.pubCreated = g.pubCreated + 1]

\* getPublicClient(): constructs the read client on the first call, returns
\* the cached one afterwards.  The client returned is g'.pub.
getPublicClient(g) ==
    IF g.pub = 0
    THEN [g EXCEPT !.pub = g.pubCreated + 1, !.pubCreated = g.pubCreated + 1]
    ELSE g

ValidKeys == {"0xac0974bec39a17e36ba4a6b4d238ff944bacb478cbed5efcae784d7bf4f2ff80"}

\* Faulty variant: the account is not derived when the client is constructed,
\* so a missing or malformed key goes unnoticed here.
getWalletClientUnchecked(privateKey, g) ==
    [ok |-> TRUE, g |-> [g EXCEPT !.walletCreated = @ + 1],
     wallet |-> g.walletCreated + 1, error |-> [class |-> "none", message |-> <<>>]]

\* getWalletClient(privateKey): privateKeyToAccount throws on a key that is
\* undefined or malformed; otherwise a new signing client is constructed.
getWalletClient(privateKey, g) ==
    IF ~privateKey.set
    THEN [ok |-> FALSE, g |-> g, wallet |-> 0,
          error |-> [class |-> "MissingCredentialError",
                     message |-> <<"Cannot read properties of undefined (reading 'slice')">>]]
    ELSE IF privateKey.val \notin ValidKeys
    THEN [ok |-> FALSE, g |-> g, wallet |-> 0,
          error |-> [class |-> "InvalidKeyError",
                     message |-> <<"invalid private key">>]]
    ELSE [ok |-> TRUE, g |-> [g EXCEPT !.walletCreated = @ + 1],
          wallet |-> g.walletCreated + 1, error |-> NoError]

\* const getPrivateKey = () => process.env.PRIVATE_KEY
getPrivateKey == env.PRIVATE_KEY

-----------------------------------------------------------------------------
(* toolHandlers.ts: the handlers, up to their first await                  *)

GweiDecimals == 9

handleGetEthBalance(f, g) ==
    LET parsed == SafeParse(GetEthBalanceArgsSchema, f.raw)
    IN  IF ~parsed.success
        THEN [f |-> Throw(f, "ValidationError", parsed.error.message), g |-> g]
        ELSE LET g1 == getPublicClient(g)
             IN  [f |-> Await([f EXCEPT !.data = parsed.data, !.client = g1.pub],
                              <<"getBalance">>),
                  g |-> g1]

\* Faulty variant: the gwei case is missing, so gwei falls to the default.
handleGetEthBalance_formatNoGwei(f, balance) ==
    LET unit == f.data["unit"].v
        formatted == CASE unit = <<"wei">> -> BigIntToString(balance)
                       [] OTHER -> formatEther(balance)
    IN  Return([f EXCEPT !.balance = balance], ToolResponse(formatted))

\* After client.getBalance resolved: format per unit.
handleGetEthBalance_format(f, balance) ==
    LET unit == f.data["unit"].v
        formatted == CASE unit = <<"wei">> -> BigIntToString(balance)
                       [] unit = <<"gwei">> -> formatUnits(balance, GweiDecimals)
                       [] OTHER -> formatEther(balance)
    IN  Return([f EXCEPT !.balance = balance], ToolResponse(formatted))

\* `${human} tokens (${raw} raw)`
TokensText(amount, decimals) ==
    formatUnits(amount, decimals) \o <<" tokens (">> \o BigIntToString(amount) \o <<" raw)">>

\* handleGetErc20Balance and handleErc20Allowance up to Promise.all: both reads
\* are issued, then awaited jointly.
TwoReads(schema, first, f, g) ==
    LET parsed == SafeParse(schema, f.raw)
    IN  IF ~parsed.success
        THEN [f |-> Throw(f, "ValidationError", parsed.error.message), g |-> g]
        ELSE LET g1 == getPublicClient(g)
             IN  [f |-> Await([f EXCEPT !.data = parsed.data, !.client = g1.pub],
                              <<first, "decimals">>),
                  g |-> g1]

handleGetErc20Balance(f, g) == TwoReads(GetErc20BalanceArgsSchema, "balanceOf", f, g)

handleErc20Allowance(f, g) == TwoReads(Erc20AllowanceArgsSchema, "allowance", f, g)

\* Faulty variant: the handler goes on as soon as one of the two reads has
\* resolved (Promise.race in place of Promise.all); the value not yet read is
\* taken as zero.
TwoReads_resolvedFirst(f, label, value) ==
    LET f1 == IF label = "decimals"
              THEN [f EXCEPT !.decimals = value, !.settled = Append(@, label)]
              ELSE [f EXCEPT !.balance = value, !.settled = Append(@, label)]
        balance == IF f1.balance = <<>> THEN <<0>> ELSE f1.balance
        decimals == IF f1.decimals = -1 THEN 0 ELSE f1.decimals
    IN  Return([f1 EXCEPT !.pending = {}], ToolResponse(TokensText(balance, decimals)))

\* One of the two reads resolved (settled lists the reads in the order they
\* resolved): once both have, format the result.
TwoReads_resolved(f, label, value) ==
    LET f1 == IF label = "decimals"
              THEN [f EXCEPT !.decimals = value, !.settled = Append(@, label)]
              ELSE [f EXCEPT !.balance = value, !.settled = Append(@, label)]
        left == f.pending \ {label}
    IN  IF left # {} THEN [f1 EXCEPT !.pending = left]
        ELSE Return([f1 EXCEPT !.pending = {}],
                    ToolResponse(TokensText(f1.balance, f1.decimals)))

\* Faulty variant: the signing client is constructed before the arguments
\* are validated.
handleSendEthKeyFirst(f, g) ==
    LET w == getWalletClient(getPrivateKey, g)
        parsed == SafeParse(SendEthArgsSchema, f.raw)
    IN  IF ~w.ok
        THEN [f |-> Throw(f, w.error.class, w.error.message), g |-> g]
        ELSE IF ~parsed.success
        THEN [f |-> Throw([f EXCEPT !.wallet = w.wallet],
                          "ValidationError", parsed.error.message),
              g |-> w.g]
        ELSE IF ~IsDecimalNumber(parsed.data["amountEth"].v)
        THEN [f |-> Throw([f EXCEPT !.data = parsed.data, !.wallet = w.wallet],
                          "InvalidDecimalNumberError",
                          <<"Number is not a valid decimal number.">>),
              g |-> w.g]
        ELSE [f |-> Await([f EXCEPT !.data = parsed.data, !.wallet = w.wallet,
                                    !.amountRaw = parseEther(parsed.data["amountEth"].v)],
                          <<"sendTransaction">>),
              g |-> w.g]

handleSendEth(f, g) ==
    LET parsed == SafeParse(SendEthArgsSchema, f.raw)
    IN  IF ~parsed.success
        THEN [f |-> Throw(f, "ValidationError", parsed.error.message), g |-> g]
        ELSE LET w == getWalletClient(getPrivateKey, g)
                 amountEth == parsed.data["amountEth"].v
             IN  IF ~w.ok
                 THEN [f |-> Throw([f EXCEPT !.data = parsed.data],
                                   w.error.class, w.error.message),
                       g |-> g]
                 ELSE IF ~IsDecimalNumber(amountEth)
                 THEN [f |-> Throw([f EXCEPT !.data = parsed.data, !.wallet = w.wallet],
                                   "InvalidDecimalNumberError",
                                   <<"Number is not a valid decimal number.">>),
                       g |-> w.g]
                 ELSE [f |-> Await([f EXCEPT !.data = parsed.data, !.wallet = w.wallet,
                                             !.amountRaw = parseEther(amountEth)],
                                   <<"sendTransaction">>),
                       g |-> w.g]

handleSendEth_sent(f, hash) ==
    Return([f EXCEPT !.hash = hash],
           ToolResponse(<<"Transaction broadcast.  Hash: ", hash>>))

\* Faulty variant: an ABI given as text is passed on unparsed.
ParseAbiKeepText(abi) == [ok |-> TRUE, value |-> abi]

\* if (typeof abi === "string") abi = JSON.parse(abi)
ParseAbi(abi) ==
    IF abi.t = "string" THEN JsonParse(abi.v) ELSE [ok |-> TRUE, value |-> abi]

handleCallContract(f, g) ==
    LET parsed == SafeParse(CallContractArgsSchema, f.raw)
    IN  IF ~parsed.success
        THEN [f |-> Throw(f, "ValidationError", parsed.error.message), g |-> g]
        ELSE LET abi == ParseAbi(parsed.data["abi"])
                 f1 == [f EXCEPT !.data = parsed.data]
                 g1 == getPublicClient(g)
                 f2 == [f1 EXCEPT !.client = g1.pub]
             IN  IF ~abi.ok
                 THEN [f |-> Throw(f1, "SyntaxError", <<"Unexpected end of JSON input">>),
                       g |-> g]
                 \* getContract iterates over the ABI
                 ELSE IF abi.value.t # "array"
                 THEN [f |-> Throw(f2, "TypeError", <<"abi is not iterable">>), g |-> g1]
                 \* contract.read[functionName]: the ABI has no such function
                 ELSE IF \A i \in 1..Len(abi.value.v) :
                            <<abi.value.v[i]>> # parsed.data["functionName"].v
                 THEN [f |-> Throw(f2, "AbiFunctionNotFoundError",
                                   <<"Function not found on ABI.">>),
                       g |-> g1]
                 ELSE [f |-> Await(f2, <<"readContract">>), g |-> g1]

handleCallContract_result(f, result) ==
    Return([f EXCEPT !.result = result], ToolResponse(JsonStringify(result)))

\* Faulty variant: the broadcast is issued first, with the amount converted at
\* 18 fractional digits, without reading decimals().
Erc20WriteBroadcastFirst(schema, f, g) ==
    LET parsed == SafeParse(schema, f.raw)
    IN  IF ~parsed.success
        THEN [f |-> Throw(f, "ValidationError", parsed.error.message), g |-> g]
        ELSE LET w == getWalletClient(getPrivateKey, g)
                 g1 == getPublicClient(w.g)
                 amount == parsed.data["amount"].v
             IN  IF ~w.ok
                 THEN [f |-> Throw([f EXCEPT !.data = parsed.data],
                                   w.error.class, w.error.message),
                       g |-> g]
                 ELSE IF ~IsDecimalNumber(amount)
                 THEN [f |-> Throw([f EXCEPT !.data = parsed.data, !.wallet = w.wallet,
                                             !.client = g1.pub],
                                   "InvalidDecimalNumberError",
                                   <<"Number is not a valid decimal number.">>),
                       g |-> g1]
                 ELSE [f |-> Await([f EXCEPT !.data = parsed.data, !.wallet = w.wallet,
                                             !.client = g1.pub,
                                             !.amountRaw = parseEther(amount)],
                                   <<"writeContract">>),
                       g |-> g1]

\* handleErc20Transfer and handleErc20Approve up to the decimals read.
Erc20Write(schema, f, g) ==
    LET parsed == SafeParse(schema, f.raw)
    IN  IF ~parsed.success
        THEN [f |-> Throw(f, "ValidationError", parsed.error.message), g |-> g]
        ELSE LET w == getWalletClient(getPrivateKey, g)
                 g1 == getPublicClient(w.g)
             IN  IF ~w.ok
                 THEN [f |-> Throw([f EXCEPT !.data = parsed.data],
                                   w.error.class, w.error.message),
                       g |-> g]
                 ELSE [f |-> Await([f EXCEPT !.data = parsed.data, !.wallet = w.wallet,
                                             !.client = g1.pub],
                                   <<"decimals">>),
                       g |-> g1]

handleErc20Transfer(f, g) == Erc20Write(Erc20TransferArgsSchema, f, g)

handleErc20Approve(f, g) == Erc20Write(Erc20ApproveArgsSchema, f, g)

\* After decimals() resolved: convert the amount, then broadcast.
Erc20Write_decimals(f, decimals) ==
    LET amount == f.data["amount"].v
        f1 == [f EXCEPT !.decimals = decimals, !.pending = {}]
    IN  IF ~IsDecimalNumber(amount)
        THEN Throw(f1, "InvalidDecimalNumberError",
                   <<"Number is not a valid decimal number.">>)
        ELSE Await([f1 EXCEPT !.amountRaw = parseUnits(amount, decimals)],
                   <<"writeContract">>)

Erc20Write_sent(f, hash) ==
    Return([f EXCEPT !.hash = hash],
           ToolResponse(<<(IF f.tool = "erc20_transfer"
                           THEN "Transfer submitted. Tx hash: "
                           ELSE "Approve transaction broadcast. Tx hash: "), hash>>))

handleGetRpcUrl(f) == Return(f, ToolResponse(<<rpcUrl>>))

-----------------------------------------------------------------------------
(* toolHandlers.ts: handler map and dispatcher                             *)

ToolNames ==
    {"get_eth_balance", "get_erc20_balance", "send_eth", "call_contract",
     "erc20_transfer", "erc20_approve", "erc20_allowance", "get_rpc_url"}

WriteTools == {"send_eth", "erc20_transfer", "erc20_approve"}

\* handlers[toolName]: an own property of the handler map, else whatever the
\* map inherits from Object.prototype under that name, else undefined.
handlers(toolName) ==
    CASE toolName \in ToolNames -> [kind |-> "handler", of |-> toolName]
      [] toolName = "constructor" -> [kind |-> "function", of |-> "Object"]
      [] toolName = "toString" -> [kind |-> "function", of |-> "Object.prototype.toString"]
      [] toolName = "__proto__" -> [kind |-> "object", of |-> "Object.prototype"]
      [] OTHER -> [kind |-> "undefined", of |-> ""]

\* fn(rawArgs) for a registered handler.
InvokeHandler(name, f, g) ==
    CASE name = "get_eth_balance" -> handleGetEthBalance(f, g)
      [] name = "get_erc20_balance" -> handleGetErc20Balance(f, g)
      [] name = "send_eth" -> handleSendEth(f, g)
      [] name = "call_contract" -> handleCallContract(f, g)
      [] name = "erc20_transfer" -> handleErc20Transfer(f, g)
      [] name = "erc20_approve" -> handleErc20Approve(f, g)
      [] name = "erc20_allowance" -> handleErc20Allowance(f, g)
      [] name = "get_rpc_url" -> [f |-> handleGetRpcUrl(f), g |-> g]

\* handleTool(toolName, rawArgs)
handleTool(toolName, f, g) ==
    LET fn == handlers(toolName)
    IN  CASE fn.kind = "undefined" ->
                [f |-> Throw(f, "UnknownToolError", <<"Unknown tool: ", toolName>>),
                 g |-> g]
          [] fn.kind = "handler" ->
                InvokeHandler(fn.of, [f EXCEPT !.invoked = Append(@, fn.of)], g)
          \* an inherited function: it runs and returns a value with no content
          [] fn.kind = "function" ->
                [f |-> Return([f EXCEPT !.invoked = Append(@, fn.of)], NoEnvelope),
                 g |-> g]
          \* an inherited object: calling it throws
          [] fn.kind = "object" ->
                [f |-> Throw(f, "TypeError", <<"fn is not a function">>), g |-> g]

\* The continuation of a suspended handler when the node answers one of its
\* pending RPCs.
Resume(f, label, value) ==
    CASE f.tool = "get_eth_balance" -> handleGetEthBalance_format(f, value)
      [] f.tool \in {"get_erc20_balance", "erc20_allowance"} ->
            TwoReads_resolved(f, label, value)
      [] f.tool = "send_eth" -> handleSendEth_sent(f, value)
      [] f.tool = "call_contract" -> handleCallContract_result(f, value)
      [] f.tool \in {"erc20_transfer", "erc20_approve"} /\ label = "decimals" ->
            Erc20Write_decimals(f, value)
      [] f.tool \in {"erc20_transfer", "erc20_approve"} /\ label = "writeContract" ->
            Erc20Write_sent(f, value)

-----------------------------------------------------------------------------
(* index.ts: the call-tool request handler                                 *)

\* return { content: result.content, isError: result.isError }
ReturnBlock(result) ==
    [hasContent |-> result.hasContent, content |-> result.content,
     isError |-> result.isError]

\* catch (err): { content: [{ type: "text", text: `Error: ${msg}` }], isError: true }
CatchBlock(err) ==
    [hasContent |-> TRUE,
     content |-> <<[type |-> "text", text |-> <<"Error: ">> \o err.message]>>,
     isError |-> "true"]

\* Faulty variant: the catch block builds the text but leaves isError unset.
TryCatchNoErrorFlag(f) ==
    CASE f.pc = "returned" ->
            [f EXCEPT !.pc = "done", !.pending = {}, !.envelope = ReturnBlock(f.response)]
      [] f.pc = "threw" ->
            [f EXCEPT !.pc = "done", !.pending = {},
                      !.envelope = [CatchBlock(f.thrown) EXCEPT !.isError = "undefined"]]
      [] OTHER -> f

\* try { ... await handleTool(...) ... } catch (err) { ... } around a handler
\* that returned, threw or is suspended.
TryCatch(f) ==
    CASE f.pc = "returned" ->
            [f EXCEPT !.pc = "done", !.pending = {}, !.envelope = ReturnBlock(f.response)]
      [] f.pc = "threw" ->
            [f EXCEPT !.pc = "done", !.pending = {}, !.envelope = CatchBlock(f.thrown)]
      [] OTHER -> f

-----------------------------------------------------------------------------
(* The inputs                                                              *)

GoodAddr == <<"0x", "000000000000000000000000000000000000dead">>
\* wrong length
ShortAddr == <<"0x", "dead">>
\* no 0x prefix
NoPrefixAddr == <<"000000000000000000000000000000000000dead">>

Hex40 == {"000000000000000000000000000000000000dead"}

\* The shape of an EVM address: 0x and 40 hex digits.
IsAddress(s) == Len(s) = 2 /\ s[1] = "0x" /\ s[2] \in Hex40

Absent == [t |-> "absent", v |-> <<>>]
Number42 == Num(<<"42">>)

AbiFG == <<"f", "g">>
AbiJson == <<"[", Quote("f"), ",", Quote("g"), "]">>
TruncatedJson == <<"[", Quote("f"), ",">>

AddressAlternatives == {Str(ShortAddr), Str(NoPrefixAddr), Number42, Absent}
AmountAlternatives == {Str(<<"0">>), Str(<<"a", "b", "c">>), Number42, Absent}

\* The base (valid) argument mapping of each tool.
BaseArgs(tool) ==
    CASE tool = "get_eth_balance" ->
            [address |-> Str(GoodAddr), unit |-> Str(<<"ether">>)]
      [] tool = "get_erc20_balance" ->
            [tokenAddress |-> Str(GoodAddr), accountAddress |-> Str(GoodAddr)]
      [] tool = "send_eth" ->
            [to |-> Str(GoodAddr), amountEth |-> Str(<<"0", ".", "0", "1">>)]
      [] tool = "call_contract" ->
            [address |-> Str(GoodAddr), abi |-> Arr(AbiFG),
             functionName |-> Str(<<"f">>), args |-> Arr(<<>>)]
      [] tool = "erc20_transfer" ->
            [tokenAddress |-> Str(GoodAddr), to |-> Str(GoodAddr),
             amount |-> Str(<<"1", ".", "5">>)]
      [] tool = "erc20_approve" ->
            [tokenAddress |-> Str(GoodAddr), spender |-> Str(GoodAddr),
             amount |-> Str(<<"1", ".", "5">>)]
      [] tool = "erc20_allowance" ->
            [tokenAddress |-> Str(GoodAddr), owner |-> Str(GoodAddr),
             spender |-> Str(GoodAddr)]
      [] OTHER -> [k \in {} |-> Undefined]

\* The other values tried for a field.
Alternatives(field) ==
    CASE field \in {"address", "tokenAddress", "accountAddress", "to", "spender", "owner"} ->
            AddressAlternatives
      [] field \in {"amount", "amountEth"} -> AmountAlternatives
      [] field = "unit" ->
            {Str(<<"wei">>), Str(<<"gwei">>), Str(<<"finney">>), Number42, Absent}
      [] field = "abi" -> {Str(AbiJson), Str(TruncatedJson), Number42, Absent}
      [] field = "functionName" -> {Str(<<"h">>), Number42, Absent}
      [] field = "args" -> {Str(<<"x">>), Absent}

\* The argument mappings a request for `tool` may carry: none, the base
\* mapping, the base mapping with one field replaced or removed, and for
\* get_rpc_url (which declares no arguments) a mapping with a stray key.
RawArgs(tool) ==
    LET base == BaseArgs(tool)
    IN  {NoArguments, Arguments(base)}
        \cup (IF tool = "get_rpc_url" THEN {Arguments([address |-> Number42])} ELSE {})
        \cup {Arguments(IF a = Absent THEN Without(base, k) ELSE With(base, k, a)) :
                 <<k, a>> \in UNION {{k} \X Alternatives(k) : k \in DOMAIN base}}

\* The tool names a request may carry.
RequestedNames == ToolNames \cup {"constructor", "toString", "__proto__", "no_such_tool"}

-----------------------------------------------------------------------------
(* The chain                                                               *)

Balances ==
    {<<0>>, <<1>>, <<1, 5, 0, 0, 0, 0, 0, 0, 0, 0>>,
     <<1, 2, 3, 4, 5, 6, 7, 8, 9, 0, 1, 2, 3, 4, 5, 6, 7, 8, 9, 0, 1>>,
     <<1, 0, 0, 0, 0>> \o Repeat(0, 18)}

TokenAmounts == {<<0>>, <<1, 5, 0, 0, 0, 0, 0>>}

DecimalsValues == {0, 6, 18}

ContractResults ==
    {Scalar(BigIntItem(<<1, 5, 0, 0, 0, 0, 0>>)),
     Tuple(<<BigIntItem(<<7>>), StringItem("USDC")>>)}

TxHashes == {"0x5e1f"}

\* What the node may answer to an RPC.
ChainValues(label) ==
    CASE label = "getBalance" -> Balances
      [] label \in {"balanceOf", "allowance"} -> TokenAmounts
      [] label = "decimals" -> DecimalsValues
      [] label = "readContract" -> ContractResults
      [] label \in {"sendTransaction", "writeContract"} -> TxHashes

-----------------------------------------------------------------------------
(* The state machine                                                       *)

CliArgsChoices == {<<>>, <<"">>, <<"http://cli:8545">>}
RpcUrlChoices == {Unset, SetTo(""), SetTo("http://env:8545")}
PrivateKeyChoices ==
    {Unset, SetTo("0xabc"),
     SetTo("0xac0974bec39a17e36ba4a6b4d238ff944bacb478cbed5efcae784d7bf4f2ff80")}

Init ==
    /\ cliArgs \in CliArgsChoices
    /\ env \in [RPC_URL : RpcUrlChoices, PRIVATE_KEY : PrivateKeyChoices]
    /\ rpcUrl = ResolveRpcUrl(cliArgs, env)
    /\ _publicClient = 0
    /\ publicClientsCreated = 0
    /\ walletClientsCreated = 0
    /\ calls = [s \in Slots |-> IdleFrame]

\* The module state after a handler step.
SetGlobals(g) ==
    /\ _publicClient' = g.pub
    /\ publicClientsCreated' = g.pubCreated
    /\ walletClientsCreated' = g.walletCreated

\* A tools/call request arrives: the request handler runs handleTool up to the
\* handler's first await, or to its return or throw.
CallTool(s, toolName, rawArgs) ==
    /\ calls[s].pc = "idle"
    /\ LET r == handleTool(toolName, [IdleFrame EXCEPT !.tool = toolName, !.raw = rawArgs],
                            Globals)
       IN  /\ r.g.walletCreated <= MaxWalletClients
           /\ calls' = [calls EXCEPT ![s] = TryCatch(r.f)]
           /\ SetGlobals(r.g)
    /\ UNCHANGED <<cliArgs, env, rpcUrl>>

\* The node answers a pending RPC: the handler resumes and runs to its next
\* await, its return or its throw.
RpcResolve(s, label, value) ==
    /\ calls[s].pc = "await"
    /\ label \in calls[s].pending
    /\ calls' = [calls EXCEPT ![s] = TryCatch(Resume(calls[s], label, value))]
    /\ UNCHANGED <<cliArgs, env, rpcUrl, _publicClient, publicClientsCreated,
                   walletClientsCreated>>

\* Faulty variant: a failed RPC is issued once more before the failure is
\* passed on to the handler.
RpcRejectRetry(s, label) ==
    /\ calls[s].pc = "await"
    /\ label \in calls[s].pending
    /\ calls' = [calls EXCEPT ![s] =
                    IF Cardinality({i \in 1..Len(calls[s].rpcs) : calls[s].rpcs[i] = label}) < 2
                    THEN [calls[s] EXCEPT !.rpcs = Append(@, label)]
                    ELSE TryCatch(Throw(calls[s], "ChainRpcError",
                                        <<"RPC request failed: ", label>>))]
    /\ UNCHANGED <<cliArgs, env, rpcUrl, _publicClient, publicClientsCreated,
                   walletClientsCreated>>

\* A pending RPC fails: the await rejects and the handler throws.
RpcReject(s, label) ==
    /\ calls[s].pc = "await"
    /\ label \in calls[s].pending
    /\ calls' = [calls EXCEPT ![s] =
                    TryCatch(Throw(calls[s], "ChainRpcError",
                                   <<"RPC request failed: ", label>>))]
    /\ UNCHANGED <<cliArgs, env, rpcUrl, _publicClient, publicClientsCreated,
                   walletClientsCreated>>

\* The envelope is sent back and the slot is free again.
Respond(s) ==
    /\ calls[s].pc = "done"
    /\ calls' = [calls EXCEPT ![s] = IdleFrame]
    /\ UNCHANGED <<cliArgs, env, rpcUrl, _publicClient, publicClientsCreated,
                   walletClientsCreated>>

AllLabels ==
    {"getBalance", "balanceOf", "allowance", "decimals", "readContract",
     "sendTransaction", "writeContract"}

\* Requests are taken from the transport one at a time: a request is handed
\* to the call handler only when no other call is in flight.
CallToolInTurn(s, toolName, rawArgs) ==
    /\ \A o \in Slots : calls[o].pc = "idle"
    /\ CallTool(s, toolName, rawArgs)

Next ==
    \/ \E s \in Slots, toolName \in RequestedNames :
          \E rawArgs \in RawArgs(toolName) : CallToolInTurn(s, toolName, rawArgs)
    \/ \E s \in Slots, label \in AllLabels :
          \E value \in ChainValues(label) : RpcResolve(s, label, value)
    \/ \E s \in Slots, label \in AllLabels : RpcReject(s, label)
    \/ \E s \in Slots : Respond(s)

Spec == Init /\ [][Next]_vars

-----------------------------------------------------------------------------
(* Calls in flight together: the request handler is asynchronous, so a     *)
(* second request may be dispatched while the first is suspended at an     *)
(* await.  The arguments are the base mappings, and for call_contract also *)
(* the ABI given as JSON text; a request may also carry no arguments.      *)

ConcurrentArgs(tool) ==
    {NoArguments, Arguments(BaseArgs(tool))}
    \cup (IF tool = "call_contract"
          THEN {Arguments(With(BaseArgs(tool), "abi", Str(AbiJson)))}
          ELSE {})

InitConcurrent ==
    /\ cliArgs = <<>>
    /\ env \in [RPC_URL : {Unset}, PRIVATE_KEY : PrivateKeyChoices]
    /\ rpcUrl = ResolveRpcUrl(cliArgs, env)
    /\ _publicClient = 0
    /\ publicClientsCreated = 0
    /\ walletClientsCreated = 0
    /\ calls = [s \in Slots |-> IdleFrame]

NextConcurrent ==
    \/ \E s \in Slots, toolName \in ToolNames :
          \E rawArgs \in ConcurrentArgs(toolName) : CallTool(s, toolName, rawArgs)
    \/ \E s \in Slots, label \in AllLabels :
          \E value \in ChainValues(label) : RpcResolve(s, label, value)
    \/ \E s \in Slots, label \in AllLabels : RpcReject(s, label)
    \/ \E s \in Slots : Respond(s)

SpecConcurrent == InitConcurrent /\ [][NextConcurrent]_vars

-----------------------------------------------------------------------------
(* Properties                                                              *)

\* The schema a tool's handler validates its arguments against.
SchemaOf(tool) ==
    CASE tool = "get_eth_balance" -> GetEthBalanceArgsSchema
      [] tool = "get_erc20_balance" -> GetErc20BalanceArgsSchema
      [] tool = "send_eth" -> SendEthArgsSchema
      [] tool = "call_contract" -> CallContractArgsSchema
      [] tool = "erc20_transfer" -> Erc20TransferArgsSchema
      [] tool = "erc20_approve" -> Erc20ApproveArgsSchema
      [] tool = "erc20_allowance" -> Erc20AllowanceArgsSchema

\* The tools whose handler takes arguments.
ToolsWithArgs == ToolNames \ {"get_rpc_url"}

\* The call in slot s has been dispatched (and not yet answered).
Dispatched(s) == calls[s].pc # "idle"

\* The call in slot s has its envelope.
Done(s) == calls[s].pc = "done"

\* The envelope of a failure with the given message: one text item
\* "Error: <message>", flagged as an error.
IsErrorEnvelope(e, message) ==
    /\ e.hasContent
    /\ Len(e.content) = 1
    /\ e.content[1].type = "text"
    /\ e.content[1].text = <<"Error: ">> \o message
    /\ e.isError = "true"

\* C1: whatever the tool name and arguments, a call never leaves the call
\* handler with a failure: a call is either suspended at an await or has its
\* envelope; when the dispatcher or handler threw, the envelope is exactly one
\* text item "Error: <message>" with isError = true; when it returned, the
\* envelope carries the handler's content and its error flag is not true.
C1_FailuresBecomeErrorEnvelopes ==
    \A s \in Slots :
        /\ calls[s].pc \in {"idle", "await", "done"}
        /\ Done(s) /\ calls[s].thrown.class # "none" =>
              IsErrorEnvelope(calls[s].envelope, calls[s].thrown.message)
        /\ Done(s) /\ calls[s].thrown.class = "none" =>
              /\ calls[s].envelope.content = calls[s].response.content
              /\ calls[s].envelope.hasContent = calls[s].response.hasContent
              /\ calls[s].envelope.isError # "true"
        /\ ~Done(s) => calls[s].envelope = NoEnvelope

\* A call_contract call given malformed JSON as its ABI has its error envelope.
C1_Witness ==
    \E s \in Slots :
        /\ Done(s)
        /\ calls[s].thrown.class = "SyntaxError"
        /\ calls[s].envelope.isError = "true"

\* C2: a tool name that is not one of the eight registered names fails with
\* UnknownToolError "Unknown tool: <name>" and no handler is invoked; a
\* registered name invokes exactly that tool's handler, once.
C2_ExactNameMatch ==
    \A s \in Slots :
        Dispatched(s) =>
            IF calls[s].tool \in ToolNames
            THEN calls[s].invoked = <<calls[s].tool>>
            ELSE /\ calls[s].invoked = <<>>
                 /\ calls[s].thrown = [class |-> "UnknownToolError",
                                       message |-> <<"Unknown tool: ", calls[s].tool>>]

\* C3: with PRIVATE_KEY unset, a write tool called with schema-valid arguments
\* never issues a chain RPC, never suspends, and ends with
\* MissingCredentialError.
C3_NoKeyNoRpc ==
    \A s \in Slots :
        (/\ Dispatched(s)
         /\ ~env.PRIVATE_KEY.set
         /\ calls[s].tool \in WriteTools
         /\ SafeParse(SchemaOf(calls[s].tool), calls[s].raw).success)
        => /\ Done(s)
           /\ calls[s].thrown.class = "MissingCredentialError"
           /\ calls[s].rpcs = <<>>
           /\ calls[s].wallet = 0

\* An erc20_transfer with valid arguments has failed for want of a key.
C3_Witness ==
    \E s \in Slots :
        /\ Done(s)
        /\ ~env.PRIVATE_KEY.set
        /\ calls[s].tool = "erc20_transfer"
        /\ calls[s].raw = Arguments(BaseArgs("erc20_transfer"))
        /\ calls[s].thrown.class = "MissingCredentialError"
        /\ calls[s].rpcs = <<>>

AddressFields == {"address", "tokenAddress", "accountAddress", "to", "spender", "owner"}

\* Some address-shaped field of the call's tool holds a string that is not of
\* the shape of an address.
HasMalformedAddress(f) ==
    /\ f.tool \in ToolsWithArgs
    /\ \E i \in 1..Len(SchemaOf(f.tool)) :
          LET value == Get(f.raw, SchemaOf(f.tool)[i].name)
          IN  /\ SchemaOf(f.tool)[i].name \in AddressFields
              /\ value.t = "string"
              /\ ~IsAddress(value.v)

\* C4: a call with a malformed address (wrong length, or no 0x prefix) fails
\* with ValidationError and issues no chain RPC.
C4_MalformedAddressRejected ==
    \A s \in Slots :
        Dispatched(s) /\ HasMalformedAddress(calls[s])
        => /\ Done(s)
           /\ calls[s].thrown.class = "ValidationError"
           /\ calls[s].rpcs = <<>>

\* C5: when the arguments violate the schema the handler validates against,
\* the call ends with ValidationError without having obtained the read client,
\* constructed a signing client or issued an RPC, whether or not a signing key
\* is configured.
C5_ValidationFirst ==
    \A s \in Slots :
        (/\ Dispatched(s)
         /\ calls[s].tool \in ToolsWithArgs
         /\ ~SafeParse(SchemaOf(calls[s].tool), calls[s].raw).success)
        => /\ Done(s)
           /\ calls[s].thrown.class = "ValidationError"
           /\ calls[s].client = 0
           /\ calls[s].wallet = 0
           /\ calls[s].rpcs = <<>>

\* A write tool called without a key and with a schema violation ended with
\* ValidationError.
C5_Witness ==
    \E s \in Slots :
        /\ Done(s)
        /\ ~env.PRIVATE_KEY.set
        /\ calls[s].tool = "send_eth"
        /\ calls[s].raw.defined
        /\ "amountEth" \notin DOMAIN calls[s].raw.map
        /\ calls[s].thrown.class = "ValidationError"

\* C6: a call_contract call whose mapping omits address, abi or functionName
\* fails with ValidationError and issues no RPC; omitting args alone is
\* accepted and args defaults to the empty list.
C6_CallContractRequiredFields ==
    \A s \in Slots :
        Dispatched(s) /\ calls[s].tool = "call_contract" /\ calls[s].raw.defined
        => /\ (\E k \in {"address", "abi", "functionName"} :
                    k \notin DOMAIN calls[s].raw.map)
              => /\ Done(s)
                 /\ calls[s].thrown.class = "ValidationError"
                 /\ calls[s].rpcs = <<>>
           /\ (/\ {"address", "abi", "functionName"} \subseteq DOMAIN calls[s].raw.map
               /\ "args" \notin DOMAIN calls[s].raw.map)
              => /\ calls[s].thrown.class # "ValidationError"
                 /\ calls[s].data["args"] = Arr(<<>>)

\* The client instances in every state: at most one read client has been
\* constructed, every call that obtained the read client holds that instance,
\* and no two calls in flight hold the same signing client.
C7_Instances ==
    /\ publicClientsCreated <= 1
    /\ (_publicClient = 0) = (publicClientsCreated = 0)
    /\ \A s \in Slots :
          /\ calls[s].client # 0 => calls[s].client = _publicClient
          /\ calls[s].wallet <= walletClientsCreated
          /\ calls[s].pc = "await" => calls[s].client # 0 \/ calls[s].wallet # 0
    /\ \A s, t \in Slots :
          s # t /\ calls[s].wallet # 0 => calls[s].wallet # calls[t].wallet

\* The client instances in every step: the cached read client, once
\* constructed, is never replaced, and a call that comes to hold a signing
\* client holds one constructed in that very step.
C7_Steps ==
    /\ _publicClient # 0 => _publicClient' = _publicClient
    /\ \A s \in Slots :
          calls[s].wallet = 0 /\ calls'[s].wallet # 0
          => /\ walletClientsCreated' = walletClientsCreated + 1
             /\ calls'[s].wallet = walletClientsCreated'
    /\ walletClientsCreated' # walletClientsCreated
       => \E s \in Slots : calls[s].wallet = 0 /\ calls'[s].wallet # 0

ExpectedRpcUrl ==
    CASE cliArgs # <<>> -> cliArgs[1]
      [] cliArgs = <<>> /\ env.RPC_URL.set -> env.RPC_URL.val
      [] OTHER -> "http://127.0.0.1:8545"

\* The endpoint is the resolved one, and every answered get_rpc_url call
\* returned it, untouched by validation, clients or RPCs.
C8_Endpoint ==
    /\ rpcUrl = ExpectedRpcUrl
    /\ \A s \in Slots :
          Dispatched(s) /\ calls[s].tool = "get_rpc_url"
          => /\ Done(s)
             /\ calls[s].thrown.class = "none"
             /\ calls[s].envelope =
                    [hasContent |-> TRUE,
                     content |-> <<[type |-> "text", text |-> <<rpcUrl>>]>>,
                     isError |-> "undefined"]
             /\ calls[s].client = 0
             /\ calls[s].wallet = 0
             /\ calls[s].rpcs = <<>>

\* C8: the endpoint is the first process argument if given, else RPC_URL if
\* set, else http://127.0.0.1:8545; it never changes; and get_rpc_url, with any
\* arguments and at any point, returns exactly it with no validation, client or
\* RPC.
C8_RpcUrlResolvedOnce ==
    /\ []C8_Endpoint
    /\ [][rpcUrl' = rpcUrl /\ cliArgs' = cliArgs /\ env' = env]_vars

\* get_rpc_url was called with a stray argument after the read client had been
\* constructed, in a process started with RPC_URL set and no argument.
C8_Witness ==
    \E s \in Slots :
        /\ Done(s)
        /\ calls[s].tool = "get_rpc_url"
        /\ calls[s].raw.defined
        /\ DOMAIN calls[s].raw.map # {}
        /\ _publicClient # 0
        /\ cliArgs = <<>>
        /\ env.RPC_URL = SetTo("http://env:8545")
        /\ calls[s].envelope.content[1].text = <<"http://env:8545">>

\* The characters of a decimal text before and after its point.
IntegerPart(text) ==
    IF IndexOfDot(text, 1) = 0 THEN text ELSE SubSeq(text, 1, IndexOfDot(text, 1) - 1)

FractionPart(text) ==
    IF IndexOfDot(text, 1) = 0 THEN <<>>
    ELSE SubSeq(text, IndexOfDot(text, 1) + 1, Len(text))

AllDigits(chars) == \A i \in 1..Len(chars) : IsDigitChar(chars[i])

DigitsOf(chars) == [i \in 1..Len(chars) |-> DigitOf(chars[i])]

\* text is the decimal numeral of b / 10^decimals, exactly: an integer part
\* without needless leading zeros and, when the quotient is not an integer,
\* a point and a fraction of at most `decimals` digits without trailing zeros,
\* which scaled by 10^decimals give back b.
IsExactQuotient(text, b, decimals) ==
    LET int == IntegerPart(text)
        frac == FractionPart(text)
    IN  /\ int # <<>> /\ AllDigits(int) /\ AllDigits(frac)
        /\ Len(int) > 1 => int[1] # "0"
        /\ (IndexOfDot(text, 1) # 0) = (frac # <<>>)
        /\ frac # <<>> => frac[Len(frac)] # "0"
        /\ Len(frac) <= decimals
        /\ StripLeadingZeros(DigitsOf(int \o frac) \o Repeat(0, decimals - Len(frac))) = b

RECURSIVE JoinQuoted(_)
JoinQuoted(names) ==
    IF names = <<>> THEN <<>>
    ELSE <<Quote(Head(names))>>
         \o (IF Len(names) > 1 THEN <<",">> ELSE <<>>)
         \o JoinQuoted(Tail(names))

AbiText(names) == <<"[">> \o JoinQuoted(names) \o <<"]">>

\* What the node answered to the call's contract read: nothing yet (or never
\* asked), a failure, or a value.
ChainAnswer(f) ==
    IF "readContract" \notin {f.rpcs[i] : i \in 1..Len(f.rpcs)} \/ f.pc # "done"
    THEN [kind |-> "none", value |-> NoResult]
    ELSE IF f.thrown.class = "ChainRpcError"
    THEN [kind |-> "failure", value |-> NoResult]
    ELSE [kind |-> "value", value |-> f.result]

\* Two finished call_contract calls that differ only in the ABI's form: the
\* first gave the JSON text of the ABI the second gave structured.
SameCallTwoAbiForms(f, h) ==
    /\ f.pc = "done" /\ h.pc = "done"
    /\ f.tool = "call_contract" /\ h.tool = "call_contract"
    /\ f.raw.defined /\ h.raw.defined
    /\ DOMAIN f.raw.map = DOMAIN h.raw.map
    /\ "abi" \in DOMAIN f.raw.map
    /\ \A k \in DOMAIN f.raw.map \ {"abi"} : f.raw.map[k] = h.raw.map[k]
    /\ h.raw.map["abi"].t = "array"
    /\ f.raw.map["abi"] = Str(AbiText(h.raw.map["abi"].v))

\* text holds part as a contiguous run.
Contains(text, part) ==
    \E i \in 1..(Len(text) - Len(part) + 1) : SubSeq(text, i, i + Len(part) - 1) = part

\* C10: call_contract with the ABI as JSON text and with the same ABI
\* structured give the same envelope when the node does not answer them
\* differently; and every bigint of a result appears in the text as a quoted
\* decimal numeral.
C10_AbiFormsAgree ==
    /\ \A s, t \in Slots :
          (/\ SameCallTwoAbiForms(calls[s], calls[t])
           /\ \/ ChainAnswer(calls[s]) = ChainAnswer(calls[t])
              \/ ChainAnswer(calls[s]).kind = "none"
              \/ ChainAnswer(calls[t]).kind = "none")
          => /\ calls[s].envelope = calls[t].envelope
             /\ ChainAnswer(calls[s]) = ChainAnswer(calls[t])
    /\ \A s \in Slots :
          Done(s) /\ calls[s].tool = "call_contract" /\ calls[s].thrown.class = "none"
          => \A i \in 1..Len(calls[s].result.items) :
                LET item == calls[s].result.items[i]
                IN  item.t = "bigint"
                    => \E chars \in {BigIntToString(item.n)} :
                          /\ AllDigits(chars) /\ DigitsOf(chars) = item.n
                          /\ Contains(calls[s].envelope.content[1].text,
                                      <<"\"">> \o chars \o <<"\"">>)

\* Both forms were called, the node returned the same tuple to both, and both
\* envelopes are the same success text.
C10_Witness ==
    \E s, t \in Slots :
        /\ SameCallTwoAbiForms(calls[s], calls[t])
        /\ calls[s].thrown.class = "none"
        /\ calls[t].thrown.class = "none"
        /\ calls[s].result = Tuple(<<BigIntItem(<<7>>), StringItem("USDC")>>)
        /\ calls[t].result = calls[s].result
        /\ calls[s].envelope = calls[t].envelope
        /\ calls[s].envelope.isError = "undefined"


-----------------------------------------------------------------------------
(* The ERC-20 write path                                                   *)

Erc20WriteTools == {"erc20_transfer", "erc20_approve"}

\* The progress of an erc20_transfer or erc20_approve call, read off its
\* frame: each step has happened only if every step before it has.
C11_Order ==
    \A s \in Slots :
        Dispatched(s) /\ calls[s].tool \in Erc20WriteTools
        => LET f == calls[s]
               valid == SafeParse(SchemaOf(f.tool), f.raw).success
               broadcast == Len(f.rpcs) = 2
           IN  \* validation comes before the signing client
               /\ ~valid => f.wallet = 0 /\ f.thrown.class = "ValidationError"
               \* the signing client comes before the read client and the read
               /\ f.wallet = 0 => f.client = 0 /\ f.rpcs = <<>>
               /\ f.rpcs # <<>> => f.wallet # 0 /\ f.client = _publicClient /\ f.client # 0
               \* decimals() is the first RPC and the broadcast the second
               /\ f.rpcs \in {<<>>, <<"decimals">>, <<"decimals", "writeContract">>}
               \* the conversion uses the value decimals() returned
               /\ f.amountRaw # <<>> => /\ f.decimals \in DecimalsValues
                                        /\ IsDecimalNumber(f.data["amount"].v)
                                        /\ f.amountRaw = parseUnits(f.data["amount"].v,
                                                                    f.decimals)
               \* the broadcast carries the converted amount
               /\ broadcast = (f.amountRaw # <<>>)
               /\ f.pc = "await" => f.pending = {f.rpcs[Len(f.rpcs)]}
               \* a failed read or a failed conversion: an error, no broadcast
               /\ f.decimals = -1 => ~broadcast /\ f.hash = ""
               /\ f.thrown.class = "InvalidDecimalNumberError"
                  => /\ ~broadcast /\ f.hash = "" /\ Done(s)
                     /\ f.envelope.isError = "true"
               /\ (f.thrown.class = "ChainRpcError" /\ f.rpcs = <<"decimals">>)
                  => /\ f.decimals = -1 /\ f.hash = "" /\ Done(s)
                     /\ f.envelope.isError = "true"
               \* a transaction identifier is returned only for a broadcast
               /\ f.hash # "" => broadcast /\ f.thrown.class = "none"
               \* amount "0" is raw amount 0 whatever decimals() returned
               /\ (broadcast /\ f.data["amount"].v = <<"0">>) => f.amountRaw = <<0>>

\* The steps of the write path: the broadcast is issued in the very step in
\* which the pending decimals() read resolves, and the read is issued in the
\* step that constructs the signing client.
C11_Steps ==
    \A s \in Slots :
        calls'[s].tool \in Erc20WriteTools
        => /\ (Len(calls[s].rpcs) < 2 /\ Len(calls'[s].rpcs) = 2)
              => /\ calls[s].pc = "await"
                 /\ calls[s].pending = {"decimals"}
                 /\ calls[s].decimals = -1
                 /\ calls'[s].decimals \in DecimalsValues
                 /\ calls'[s].pending = {"writeContract"}
           /\ (calls[s].rpcs = <<>> /\ calls'[s].rpcs # <<>>)
              => /\ calls[s].pc = "idle"
                 /\ calls'[s].rpcs = <<"decimals">>
                 /\ walletClientsCreated' = walletClientsCreated + 1
                 /\ calls'[s].wallet = walletClientsCreated'

\* C11: in every erc20_transfer and erc20_approve call the steps come in the
\* order validate, construct the signing client, read decimals() through the
\* read client, convert the amount with that many fractional digits,
\* broadcast; the broadcast is issued only once decimals() has resolved, a
\* failed read or conversion gives an error and no broadcast, and amount "0"
\* converts to raw amount 0 for every decimals value.
C11_WriteOrder == []C11_Order /\ [][C11_Steps]_vars

\* An erc20_approve of amount "0" on a token of 18 decimals was broadcast with
\* raw amount 0 and returned its transaction identifier.
C11_Witness ==
    \E s \in Slots :
        /\ Done(s)
        /\ calls[s].tool = "erc20_approve"
        /\ Get(calls[s].raw, "amount") = Str(<<"0">>)
        /\ calls[s].decimals = 18
        /\ calls[s].amountRaw = <<0>>
        /\ calls[s].rpcs = <<"decimals", "writeContract">>
        /\ calls[s].hash \in TxHashes
        /\ calls[s].envelope.isError = "undefined"


-----------------------------------------------------------------------------
(* The jointly awaited reads                                               *)

TwoReadTools == {"get_erc20_balance", "erc20_allowance"}

\* The read issued next to decimals().
FirstRead(tool) == IF tool = "get_erc20_balance" THEN "balanceOf" ELSE "allowance"

\* text is "<human> tokens (<raw> raw)": raw the decimal numeral of amount and
\* human the exact decimal numeral of amount / 10^decimals.
IsTokensText(text, amount, decimals) ==
    \E i \in 2..(Len(text) - 2) :
        /\ text[i] = " tokens ("
        /\ text[Len(text)] = " raw)"
        /\ IsExactQuotient(SubSeq(text, 1, i - 1), amount, decimals)
        /\ AllDigits(SubSeq(text, i + 1, Len(text) - 1))
        /\ DigitsOf(SubSeq(text, i + 1, Len(text) - 1)) = amount

OnePointFiveTokens ==
    <<"1", ".", "5", " tokens (", "1", "5", "0", "0", "0", "0", "0", " raw)">>

\* C12: in get_erc20_balance and erc20_allowance both reads are issued before
\* either is awaited; the handler returns only after both have resolved, with
\* the text "<human> tokens (<raw> raw)" of the two values whichever resolved
\* first (raw 1500000 with decimals 6: "1.5 tokens (1500000 raw)"); and when
\* either read fails the call ends with an error envelope, the handler never
\* having returned.
C12_JointReads ==
    /\ \A s \in Slots :
          Dispatched(s) /\ calls[s].tool \in TwoReadTools
          => LET f == calls[s]
                 both == {FirstRead(f.tool), "decimals"}
                 resolved == {f.settled[i] : i \in 1..Len(f.settled)}
                 text == f.envelope.content[1].text
             IN  \* both reads are issued in the step that dispatches the call
                 /\ f.rpcs = (IF SafeParse(SchemaOf(f.tool), f.raw).success
                              THEN <<FirstRead(f.tool), "decimals">> ELSE <<>>)
                 /\ resolved \subseteq both /\ Len(f.settled) = Cardinality(resolved)
                 /\ ("decimals" \in resolved) = (f.decimals \in DecimalsValues)
                 /\ (FirstRead(f.tool) \in resolved) = (f.balance \in TokenAmounts)
                 \* suspended until both have resolved, nothing formatted
                 /\ f.pc = "await" => /\ f.pending = both \ resolved
                                      /\ f.pending # {}
                                      /\ f.response = NoEnvelope
                 \* a success envelope: both reads resolved, in either order
                 /\ Done(s) /\ f.thrown.class = "none"
                    => /\ resolved = both
                       /\ f.envelope.hasContent /\ Len(f.envelope.content) = 1
                       /\ f.envelope.isError # "true"
                       /\ IsTokensText(text, f.balance, f.decimals)
                       /\ (f.balance = <<1, 5, 0, 0, 0, 0, 0>> /\ f.decimals = 6)
                          => text = OnePointFiveTokens
                 \* a failed read: an error envelope, the handler did not return
                 /\ Done(s) /\ resolved # both
                    => /\ f.thrown.class # "none"
                       /\ f.response = NoEnvelope
                       /\ f.envelope.isError = "true"
                 /\ f.thrown.class = "ChainRpcError"
                    => Done(s) /\ resolved # both /\ f.response = NoEnvelope
    \* the same two values give the same envelope
    /\ \A s, t \in Slots :
          (/\ Done(s) /\ Done(t)
           /\ calls[s].tool \in TwoReadTools /\ calls[t].tool \in TwoReadTools
           /\ calls[s].thrown.class = "none" /\ calls[t].thrown.class = "none"
           /\ calls[s].balance = calls[t].balance
           /\ calls[s].decimals = calls[t].decimals)
          => calls[s].envelope = calls[t].envelope

\* Two get_erc20_balance calls read 1500000 and 6, one with balanceOf resolving
\* first and one with decimals resolving first, and both returned
\* "1.5 tokens (1500000 raw)".
C12_Witness ==
    /\ \A s \in Slots :
          /\ Done(s)
          /\ calls[s].tool = "get_erc20_balance"
          /\ calls[s].envelope.hasContent
          /\ calls[s].envelope.content[1].text = OnePointFiveTokens
    /\ calls[1].settled = <<"balanceOf", "decimals">>
    /\ calls[2].settled = <<"decimals", "balanceOf">>


-----------------------------------------------------------------------------
(* Broadcasts                                                              *)

BroadcastLabels == {"sendTransaction", "writeContract"}

\* The number of broadcasts a call has issued.
Broadcasts(f) == Cardinality({i \in 1..Len(f.rpcs) : f.rpcs[i] \in BroadcastLabels})

\* The failures that leave a write handler before its broadcast step.
FailedBeforeBroadcast(f) ==
    \/ f.thrown.class \in {"ValidationError", "MissingCredentialError",
                           "InvalidKeyError", "InvalidDecimalNumberError"}
    \/ f.thrown = [class |-> "ChainRpcError",
                   message |-> <<"RPC request failed: ", "decimals">>]

\* The broadcasts of each call, read off its frame.
C13_Calls ==
    \A s \in Slots :
        Dispatched(s)
        => LET f == calls[s]
           IN  /\ Broadcasts(f) <= 1
               \* no RPC is issued a second time
               /\ Cardinality({f.rpcs[i] : i \in 1..Len(f.rpcs)}) = Len(f.rpcs)
               \* a broadcast is the last RPC of its call
               /\ Broadcasts(f) = 1 => f.rpcs[Len(f.rpcs)] \in BroadcastLabels
               \* read tools (and names that are no tool)
               /\ f.tool \notin WriteTools => Broadcasts(f) = 0 /\ f.wallet = 0
               \* write tools
               /\ f.tool \in WriteTools
                  => /\ (Done(s) /\ f.thrown.class = "none")
                        => Broadcasts(f) = 1 /\ f.hash \in TxHashes /\ f.wallet # 0
                     /\ FailedBeforeBroadcast(f) => Broadcasts(f) = 0 /\ f.hash = ""
                     /\ (f.thrown.class # "none" /\ ~FailedBeforeBroadcast(f))
                        => /\ Broadcasts(f) = 1 /\ f.hash = ""
                           /\ f.thrown.message[2] \in BroadcastLabels
               \* a failure ends the call
               /\ f.thrown.class # "none" => Done(s) /\ f.pending = {}

\* The steps of each call: a signing client is constructed only by the step
\* that dispatches a write tool; a call in flight only adds RPCs after those
\* it has issued, and none in a step in which it fails; a call that has its
\* envelope does nothing more than hand it back.
C13_Steps ==
    /\ walletClientsCreated' # walletClientsCreated
       => /\ walletClientsCreated' = walletClientsCreated + 1
          /\ \E s \in Slots :
                /\ calls[s].pc = "idle"
                /\ calls'[s].tool \in WriteTools
                /\ calls'[s].wallet = walletClientsCreated'
    /\ \A s \in Slots :
          /\ calls[s].pc = "await"
             => /\ calls'[s].pc # "idle"
                /\ Len(calls'[s].rpcs) \in {Len(calls[s].rpcs), Len(calls[s].rpcs) + 1}
                /\ SubSeq(calls'[s].rpcs, 1, Len(calls[s].rpcs)) = calls[s].rpcs
                /\ calls'[s].thrown.class # "none" => calls'[s].rpcs = calls[s].rpcs
          /\ calls[s].pc = "done" => calls'[s] \in {calls[s], IdleFrame}

\* C13: over any sequence of tool calls each call broadcasts at most one
\* transaction: the read tools never broadcast and never construct a signing
\* client; a write tool call issues exactly one broadcast when it succeeds and
\* none when it fails before the broadcast step; and no failed call or RPC is
\* tried again.
C13_OneBroadcast == []C13_Calls /\ [][C13_Steps]_vars

\* A second write call (its signing client is the second one constructed) was
\* a send_eth that succeeded with exactly one broadcast.
C13_Witness ==
    \E s \in Slots :
        /\ Done(s)
        /\ calls[s].tool = "send_eth"
        /\ calls[s].thrown.class = "none"
        /\ calls[s].rpcs = <<"sendTransaction">>
        /\ calls[s].hash \in TxHashes
        /\ calls[s].wallet = 2
        /\ walletClientsCreated = 2

====
